---- MODULE Spec2Model ----
(***************************************************************************)
(* Model of flopoco_fixiir_metrics.py: resolving the FloPoCo executable,   *)
(* building the FixIIR command line, running it as a child process and     *)
(* extracting H / Heps / lsbExt from its log on each termination path.     *)
(*                                                                         *)
(* Representation.                                                         *)
(*   - An optional value (Python None or a value) is a sequence of length  *)
(*     0 or 1: None is the empty one, Some(x) holds x alone.               *)
(*   - A byte stream / decoded text is a sequence of log pieces.  A piece  *)
(*     is a record [phrase, key, num]: the announcement phrase, the key    *)
(*     before '=', and the characters that follow '=' (a sequence of       *)
(*     one-character strings on which the numeric grammars are run).       *)
(*   - A float is held exactly as an integer number of hundredths.         *)
(***************************************************************************)
EXTENDS Integers, Sequences, FiniteSets, TLC

VARIABLES pc, args, which, cmd, proc, result

vars == <<pc, args, which, cmd, proc, result>>

None == <<>>
Some(x) == <<x>>

\* ---------------------------------------------------------------- bounds
MaxStdout == 2
MaxStderr == 1
MaxExtra == 2

\* ------------------------------------------------------------ log pieces
Piece(p, k, n) == [phrase |-> p, key |-> k, num |-> n]

LineCH == Piece("Computed filter worst-case peak gain", "H", <<"3", ".", "5">>)
LineFH == Piece("Filter worst-case peak gain", "H", <<"1", ".", "0">>)
LineCE == Piece("Computed error amplification worst-case peak gain", "Heps", <<"0", ".", "5">>)
LineEE == Piece("Error amplification worst-case peak gain", "Heps", <<"2", "5", "e", "-", "2">>)
LineLS == Piece("Building an IIR filter faithful to", "lsbExt", <<"-", "3">>)
\* an H announcement whose value the numeric grammar does not accept
LineNaN == Piece("Filter worst-case peak gain", "H", <<"n", "a", "n">>)
\* a byte that is not valid UTF-8
BadByte == Piece("0xFF", "", <<>>)
\* what errors="replace" puts in its place
ReplacementChar == Piece("U+FFFD", "", <<>>)
Newline == Piece("LF", "", <<>>)

Alphabet == {LineCH, LineFH, LineNaN, LineCE, LineEE, LineLS, BadByte}

RECURSIVE SeqsUpTo(_, _)
SeqsUpTo(S, n) ==
    IF n = 0 THEN {<<>>}
    ELSE LET shorter == SeqsUpTo(S, n - 1)
         IN  shorter \cup {Append(s, x) : s \in {t \in shorter : Len(t) = n - 1}, x \in S}

\* -------------------------------------------------------- numeric grammars
IsDigit(c) == c \in {"0", "1", "2", "3", "4", "5", "6", "7", "8", "9"}

DigitVal(c) ==
    CASE c = "0" -> 0 [] c = "1" -> 1 [] c = "2" -> 2 [] c = "3" -> 3 [] c = "4" -> 4
      [] c = "5" -> 5 [] c = "6" -> 6 [] c = "7" -> 7 [] c = "8" -> 8 [] c = "9" -> 9

\* \d* at position p of s: how many digits it takes (greedy)
RECURSIVE DigitsRun(_, _)
DigitsRun(s, p) ==
    IF p <= Len(s) /\ IsDigit(s[p]) THEN 1 + DigitsRun(s, p + 1) ELSE 0

\* the decimal value of the n digits of s that start at position p
RECURSIVE DigitsToInt(_, _, _)
DigitsToInt(s, p, n) ==
    IF n = 0 THEN 0 ELSE DigitsToInt(s, p, n - 1) * 10 + DigitVal(s[p + n - 1])

RECURSIVE Pow10(_)
Pow10(n) == IF n = 0 THEN 1 ELSE 10 * Pow10(n - 1)

SignLen(s, p) == IF p <= Len(s) /\ s[p] \in {"+", "-"} THEN 1 ELSE 0

\* [+-]?(?:\d+(?:\.\d*)?|\.\d+) matched at the start of s: the position after
\* the match, or 0 when it does not match
MantissaEnd(s) ==
    LET p1 == 1 + SignLen(s, 1)
        n1 == DigitsRun(s, p1)
        q  == p1 + n1
    IN  IF n1 >= 1
        THEN IF q <= Len(s) /\ s[q] = "." THEN q + 1 + DigitsRun(s, q + 1) ELSE q
        ELSE IF p1 <= Len(s) /\ s[p1] = "." /\ DigitsRun(s, p1 + 1) >= 1
             THEN p1 + 1 + DigitsRun(s, p1 + 1)
             ELSE 0

\* (?:[eE][+-]?\d+)? at position p of s: the position after the match
ExponentEnd(s, p) ==
    IF p <= Len(s) /\ s[p] \in {"e", "E"}
    THEN LET q == p + 1 + SignLen(s, p + 1)
             n == DigitsRun(s, q)
         IN  IF n >= 1 THEN q + n ELSE p
    ELSE p

\* _FLOAT_RE at the start of s: group(1), or None
FLOAT_RE(s) ==
    LET m == MantissaEnd(s)
    IN  IF m = 0 THEN None ELSE Some(SubSeq(s, 1, ExponentEnd(s, m) - 1))

\* ([+-]?\d+) at the start of s: group(1), or None
INT_RE(s) ==
    LET p1 == 1 + SignLen(s, 1)
        n  == DigitsRun(s, p1)
    IN  IF n >= 1 THEN Some(SubSeq(s, 1, p1 + n - 1)) ELSE None

\* int(text) for a text INT_RE produced
ParseInt(t) ==
    LET p1 == 1 + SignLen(t, 1)
        v  == DigitsToInt(t, p1, DigitsRun(t, p1))
    IN  IF t[1] = "-" THEN 0 - v ELSE v

\* float(text) for a text FLOAT_RE produced, in hundredths (exact for
\* texts with at most two decimal places after applying the exponent)
ParseFloat(t) ==
    LET p1     == 1 + SignLen(t, 1)
        n1     == DigitsRun(t, p1)
        q      == p1 + n1
        hasDot == q <= Len(t) /\ t[q] = "."
        nf     == IF hasDot THEN DigitsRun(t, q + 1) ELSE 0
        mant   == DigitsToInt(t, p1, n1) * Pow10(nf)
                  + (IF hasDot THEN DigitsToInt(t, q + 1, nf) ELSE 0)
        e      == IF hasDot THEN q + 1 + nf ELSE q
        ex     == IF e <= Len(t) THEN ParseInt(SubSeq(t, e + 1, Len(t))) ELSE 0
        p      == ex - nf + 2
        mag    == IF p >= 0 THEN mant * Pow10(p) ELSE mant \div Pow10(0 - p)
    IN  IF t[1] = "-" THEN 0 - mag ELSE mag

\* ------------------------------------------------------------ the patterns
\* the scan of re.search over the pieces: the leftmost index from i on at
\* which the pattern matches, 0 if none
RECURSIVE FirstHit(_, _)
FirstHit(hits, i) ==
    IF i > Len(hits) THEN 0
    ELSE IF hits[i] THEN i
    ELSE FirstHit(hits, i + 1)

\* hits[i] tells whether the pattern matches at piece i
Search(hits) == FirstHit(hits, 1)

MatchH(x) ==
    /\ x.phrase \in {"Computed filter worst-case peak gain", "Filter worst-case peak gain"}
    /\ x.key = "H"
    /\ FLOAT_RE(x.num) # None

MatchHeps(x) ==
    /\ x.phrase \in {"Computed error amplification worst-case peak gain",
                     "Error amplification worst-case peak gain"}
    /\ x.key = "Heps"
    /\ FLOAT_RE(x.num) # None

MatchLsbExt(x) ==
    /\ x.phrase = "Building an IIR filter faithful to"
    /\ x.key = "lsbExt"
    /\ INT_RE(x.num) # None

\* _RE_H.search(log): None, or Some(group(1))
RE_H(log) ==
    LET i == Search([j \in DOMAIN log |-> MatchH(log[j])])
    IN  IF i = 0 THEN None ELSE FLOAT_RE(log[i].num)

RE_HEPS(log) ==
    LET i == Search([j \in DOMAIN log |-> MatchHeps(log[j])])
    IN  IF i = 0 THEN None ELSE FLOAT_RE(log[i].num)

RE_LSBEXT(log) ==
    LET i == Search([j \in DOMAIN log |-> MatchLsbExt(log[j])])
    IN  IF i = 0 THEN None ELSE INT_RE(log[i].num)

\* ------------------------------------------------------------- decoding
\* bytes.decode("utf-8", errors="replace")
DecodeUtf8(b) == [i \in DOMAIN b |-> IF b[i] = BadByte THEN ReplacementChar ELSE b[i]]

\* (stream or b"").decode(...): an absent stream is empty
DecodeStream(stream) == IF stream = None THEN <<>> ELSE DecodeUtf8(stream[1])

\* mutant of RawLog: the streams joined stderr first
RawLog_StderrFirst(out, err) == DecodeStream(err) \o <<Newline>> \o DecodeStream(out)

\* raw_log = stdout + "\n" + stderr
RawLog(out, err) == DecodeStream(out) \o <<Newline>> \o DecodeStream(err)

\* ----------------------------------------------------- executable, command
\* mutant of resolve_flopoco_exe: the test is "is not None", so an empty
\* string counts as a path
resolve_flopoco_exe_IsNotNone(flopoco_exe, found) ==
    IF flopoco_exe # None THEN flopoco_exe[1]
    ELSE IF found # None THEN found[1]
    ELSE "./build/flopoco"

\* _resolve_flopoco_exe(flopoco_exe), found being the result of shutil.which
resolve_flopoco_exe(flopoco_exe, found) ==
    IF flopoco_exe # None /\ flopoco_exe[1] # "" THEN flopoco_exe[1]
    ELSE IF found # None THEN found[1]
    ELSE "./build/flopoco"

\* mutant of ExtendCmd: the extra arguments appended last-first
ExtendCmd_Reversed(c, extra_args) ==
    IF extra_args # None /\ extra_args[1] # <<>>
    THEN c \o [i \in DOMAIN extra_args[1] |-> extra_args[1][Len(extra_args[1]) + 1 - i]]
    ELSE c

\* if extra_args: cmd.extend(list(extra_args))
ExtendCmd(c, extra_args) ==
    IF extra_args # None /\ extra_args[1] # <<>> THEN c \o extra_args[1] ELSE c

BuildCmd(a, found) ==
    ExtendCmd(
        << resolve_flopoco_exe(a.flopoco_exe, found),
           "generateFigures=" \o ToString(a.generateFigures),
           "FixIIR",
           "coeffb=" \o a.coeffb,
           "coeffa=" \o a.coeffa,
           "lsbIn=" \o ToString(a.lsbIn),
           "lsbOut=" \o ToString(a.lsbOut),
           "loglevel=" \o ToString(a.loglevel) >>,
        a.extra_args)

\* ------------------------------------------------------------- outcomes
Metrics(H, Heps, lsbExt, raw_log, timedOut) ==
    [kind |-> "return", H |-> H, Heps |-> Heps, lsbExt |-> lsbExt,
     raw_log |-> raw_log, timedOut |-> timedOut]

\* raise RuntimeError(message): the message is its fixed text and the values
\* the f-string interpolates (each None when the message has no such field)
Raise(text, timeout_s, exe, code, log) ==
    [kind |-> "raise", text |-> text, timeout_s |-> timeout_s, exe |-> exe,
     code |-> code, log |-> log]

\* mutant of HepsOf: a missing Heps line yields 0.0 instead of None
HepsOf_DefaultZero(raw_log) ==
    LET mHeps == RE_HEPS(raw_log)
    IN  IF mHeps # None THEN Some(ParseFloat(mHeps[1])) ELSE Some(0)

\* Heps = float(mHeps.group(1)) if mHeps else None
HepsOf(raw_log) ==
    LET mHeps == RE_HEPS(raw_log)
    IN  IF mHeps # None THEN Some(ParseFloat(mHeps[1])) ELSE None

\* mutant of OnTimeoutExpired: recovery also waits for the Heps line
OnTimeoutExpired_NeedsHeps(a, out, err) ==
    LET raw_log == RawLog(out, err)
        mH      == RE_H(raw_log)
        mlsb    == RE_LSBEXT(raw_log)
    IN  IF mH # None /\ RE_HEPS(raw_log) # None /\ mlsb # None
        THEN Metrics(ParseFloat(mH[1]), HepsOf(raw_log), ParseInt(mlsb[1]), raw_log, TRUE)
        ELSE Raise("FloPoCo timeout after {timeout_s}s while running FixIIR. Log:",
                   a.timeout_s, None, None, Some(raw_log))

\* mutant of OnTimeoutExpired: the timeout error leaves the log out
OnTimeoutExpired_NoLog(a, out, err) ==
    LET raw_log == RawLog(out, err)
        mH      == RE_H(raw_log)
        mlsb    == RE_LSBEXT(raw_log)
    IN  IF mH # None /\ mlsb # None
        THEN Metrics(ParseFloat(mH[1]), HepsOf(raw_log), ParseInt(mlsb[1]), raw_log, TRUE)
        ELSE Raise("FloPoCo timeout after {timeout_s}s while running FixIIR. Log:",
                   a.timeout_s, None, None, None)

\* mutant of OnTimeoutExpired: fallback_H stands in for a missing H line
OnTimeoutExpired_UsesFallback(a, out, err) ==
    LET raw_log == RawLog(out, err)
        mH      == RE_H(raw_log)
        mlsb    == RE_LSBEXT(raw_log)
    IN  IF (mH # None \/ a.fallback_H # None) /\ mlsb # None
        THEN Metrics(IF mH # None THEN ParseFloat(mH[1]) ELSE a.fallback_H[1],
                     HepsOf(raw_log), ParseInt(mlsb[1]), raw_log, TRUE)
        ELSE Raise("FloPoCo timeout after {timeout_s}s while running FixIIR. Log:",
                   a.timeout_s, None, None, Some(raw_log))

\* except subprocess.TimeoutExpired
OnTimeoutExpired(a, out, err) ==
    LET raw_log == RawLog(out, err)
        mH      == RE_H(raw_log)
        mlsb    == RE_LSBEXT(raw_log)
    IN  IF mH # None /\ mlsb # None
        THEN Metrics(ParseFloat(mH[1]), HepsOf(raw_log), ParseInt(mlsb[1]), raw_log, TRUE)
        ELSE Raise("FloPoCo timeout after {timeout_s}s while running FixIIR. Log:",
                   a.timeout_s, None, None, Some(raw_log))

\* except FileNotFoundError
OnFileNotFound(exe) ==
    Raise("FloPoCo executable not found: {flopoco_exe}. Either install flopoco in PATH or pass flopoco_exe=...",
          None, Some(exe), None, None)

\* mutant of OnCompleted: the metrics are parsed first and the exit code is
\* looked at only when one is missing
OnCompleted_ParseFirst(a, returncode, out, err) ==
    LET raw_log == RawLog(out, err)
        mH      == RE_H(raw_log)
        mlsb    == RE_LSBEXT(raw_log)
    IN  IF mH # None /\ mlsb # None
        THEN Metrics(ParseFloat(mH[1]), HepsOf(raw_log), ParseInt(mlsb[1]), raw_log, FALSE)
        ELSE IF returncode # 0
        THEN Raise("FloPoCo exited with code {returncode}. Log:",
                   None, None, Some(returncode), Some(raw_log))
        ELSE IF mH = None /\ a.fallback_H = None
        THEN Raise("Could not parse H from FloPoCo log. Log:", None, None, None, Some(raw_log))
        ELSE IF mlsb = None
        THEN Raise("Could not parse lsbExt from FloPoCo log. Log:", None, None, None, Some(raw_log))
        ELSE Metrics(a.fallback_H[1], HepsOf(raw_log), ParseInt(mlsb[1]), raw_log, FALSE)

\* mutant of OnCompleted: a missing lsbExt line yields lsbExt = 0
OnCompleted_LsbDefault(a, returncode, out, err) ==
    LET raw_log == RawLog(out, err)
        mH      == RE_H(raw_log)
        mlsb    == RE_LSBEXT(raw_log)
    IN  IF returncode # 0
        THEN Raise("FloPoCo exited with code {returncode}. Log:",
                   None, None, Some(returncode), Some(raw_log))
        ELSE IF mH = None /\ a.fallback_H = None
        THEN Raise("Could not parse H from FloPoCo log. Log:", None, None, None, Some(raw_log))
        ELSE Metrics(IF mH # None THEN ParseFloat(mH[1]) ELSE a.fallback_H[1],
                     HepsOf(raw_log),
                     IF mlsb # None THEN ParseInt(mlsb[1]) ELSE 0, raw_log, FALSE)

\* mutant of OnCompleted: "elif fallback_H:", so a fallback of 0.0 counts as unset
OnCompleted_FallbackTruthy(a, returncode, out, err) ==
    LET raw_log == RawLog(out, err)
        mH      == RE_H(raw_log)
        mlsb    == RE_LSBEXT(raw_log)
        given   == a.fallback_H # None /\ a.fallback_H # Some(0)
    IN  IF returncode # 0
        THEN Raise("FloPoCo exited with code {returncode}. Log:",
                   None, None, Some(returncode), Some(raw_log))
        ELSE IF mH = None /\ ~given
        THEN Raise("Could not parse H from FloPoCo log. Log:", None, None, None, Some(raw_log))
        ELSE IF mlsb = None
        THEN Raise("Could not parse lsbExt from FloPoCo log. Log:", None, None, None, Some(raw_log))
        ELSE Metrics(IF mH # None THEN ParseFloat(mH[1]) ELSE a.fallback_H[1],
                     HepsOf(raw_log), ParseInt(mlsb[1]), raw_log, FALSE)

\* subprocess.run returned: proc.returncode, proc.stdout, proc.stderr
OnCompleted(a, returncode, out, err) ==
    LET raw_log == RawLog(out, err)
        mH      == RE_H(raw_log)
        mlsb    == RE_LSBEXT(raw_log)
    IN  IF returncode # 0
        THEN Raise("FloPoCo exited with code {returncode}. Log:",
                   None, None, Some(returncode), Some(raw_log))
        ELSE IF mH = None /\ a.fallback_H = None
        THEN Raise("Could not parse H from FloPoCo log. Log:", None, None, None, Some(raw_log))
        ELSE IF mlsb = None
        THEN Raise("Could not parse lsbExt from FloPoCo log. Log:", None, None, None, Some(raw_log))
        ELSE Metrics(IF mH # None THEN ParseFloat(mH[1]) ELSE a.fallback_H[1],
                     HepsOf(raw_log), ParseInt(mlsb[1]), raw_log, FALSE)

\* ---------------------------------------------------------------- inputs
ExtraPool == {"target=Zynq7000", "frequency=200"}

Args(exe, extra, fig, lin, lvl, tmo, fb) ==
    [coeffb |-> "0x1p-1:0x1p-2", coeffa |-> "-0x1p-1", lsbIn |-> lin, lsbOut |-> -12,
     loglevel |-> lvl, generateFigures |-> fig, flopoco_exe |-> exe,
     extra_args |-> extra, timeout_s |-> tmo, fallback_H |-> fb]

\* the arguments varied when the outcome of the child is explored
RunArgs ==
    {Args(None, None, 0, -12, 1, tmo, fb) :
        tmo \in {None, Some(5)},
        fb \in {None, Some(0), Some(250)}}

\* the arguments varied when the command line is explored
CmdArgs ==
    {Args(exe, extra, fig, lin, lvl, None, None) :
        exe \in {None, Some(""), Some("/opt/flopoco/build/flopoco")},
        extra \in {None} \cup {Some(x) : x \in SeqsUpTo(ExtraPool, MaxExtra)},
        fig \in {0, 1}, lin \in {-12, 8}, lvl \in {0, 1}}

\* what the child may have written to each stream, and its exit codes
StdoutStreams == SeqsUpTo(Alphabet, MaxStdout)
StderrStreams == SeqsUpTo(Alphabet, MaxStderr)
ExitCodes == {0, 2}

NoProc == [kind |-> "none", returncode |-> None, stdout |-> None, stderr |-> None]
NoResult == [kind |-> "none"]

\* --------------------------------------------------------- state machine
InitWith(A, W) ==
    /\ pc = "start"
    /\ args \in A
    /\ which \in W
    /\ cmd = <<>>
    /\ proc = NoProc
    /\ result = NoResult

Init == InitWith(RunArgs, {None})

InitCmd == InitWith(CmdArgs, {None, Some("/usr/bin/flopoco")})

\* lines 87-110: resolve the executable, build cmd, start subprocess.run
Spawn ==
    /\ pc = "start"
    /\ cmd' = BuildCmd(args, which)
    /\ pc' = "running"
    /\ UNCHANGED <<args, which, proc, result>>

\* subprocess.run raises TimeoutExpired (only with a timeout set); the streams
\* captured so far may each be None
TimeoutExpired ==
    /\ pc = "running"
    /\ args.timeout_s # None
    /\ \E out \in {None} \cup {Some(x) : x \in StdoutStreams},
          err \in {None} \cup {Some(x) : x \in StderrStreams} :
          /\ proc' = [kind |-> "timeout", returncode |-> None, stdout |-> out, stderr |-> err]
          /\ result' = OnTimeoutExpired(args, out, err)
    /\ pc' = "done"
    /\ UNCHANGED <<args, which, cmd>>

\* subprocess.run raises FileNotFoundError
FileNotFound ==
    /\ pc = "running"
    /\ proc' = [kind |-> "notfound", returncode |-> None, stdout |-> None, stderr |-> None]
    /\ result' = OnFileNotFound(cmd[1])
    /\ pc' = "done"
    /\ UNCHANGED <<args, which, cmd>>

\* subprocess.run returns a CompletedProcess
Completed ==
    /\ pc = "running"
    /\ \E rc \in ExitCodes, out \in StdoutStreams, err \in StderrStreams :
          /\ proc' = [kind |-> "exit", returncode |-> Some(rc),
                      stdout |-> Some(out), stderr |-> Some(err)]
          /\ result' = OnCompleted(args, rc, Some(out), Some(err))
    /\ pc' = "done"
    /\ UNCHANGED <<args, which, cmd>>

Next ==
    \/ Spawn
    \/ TimeoutExpired
    \/ FileNotFound
    \/ Completed

Spec == Init /\ [][Next]_vars

SpecCmd == InitCmd /\ [][Spawn]_vars

\* ================================================================ claims
\* What the streams of the finished child announce, read off the captured
\* bytes stream by stream (stdout before stderr), without the patterns.
Out == IF proc.stdout = None THEN <<>> ELSE proc.stdout[1]
Err == IF proc.stderr = None THEN <<>> ELSE proc.stderr[1]

HLines == {LineCH, LineFH}
HepsLines == {LineCE, LineEE}
LsbLines == {LineLS}

InOut(S) == \E i \in DOMAIN Out : Out[i] \in S
InErr(S) == \E i \in DOMAIN Err : Err[i] \in S
Has(S) == InOut(S) \/ InErr(S)

FirstIn(s, S) == s[CHOOSE i \in DOMAIN s : s[i] \in S /\ \A j \in 1..(i - 1) : s[j] \notin S]
FirstOf(S) == IF InOut(S) THEN FirstIn(Out, S) ELSE FirstIn(Err, S)

\* the number each announcement line carries (floats in hundredths)
Announced(line) ==
    CASE line = LineCH -> 350
      [] line = LineFH -> 100
      [] line = LineCE -> 50
      [] line = LineEE -> 25
      [] line = LineLS -> -3

Replaced(s) == [i \in DOMAIN s |-> IF s[i] = BadByte THEN ReplacementChar ELSE s[i]]
ExpectedLog == Replaced(Out) \o <<Newline>> \o Replaced(Err)

TimedOut == pc = "done" /\ proc.kind = "timeout"
Exited == pc = "done" /\ proc.kind = "exit"
CleanExit == Exited /\ proc.returncode = Some(0)
Returned == result.kind = "return"
Raised == result.kind = "raise"

TimeoutText == "FloPoCo timeout after {timeout_s}s while running FixIIR. Log:"
NoHText == "Could not parse H from FloPoCo log. Log:"
NoLsbText == "Could not parse lsbExt from FloPoCo log. Log:"

\* C1: on a timeout the call returns a result iff both the H line and the
\* lsbExt line are in the partial log; the result then has timedOut = TRUE, the
\* announced H and lsbExt, and Heps set iff the Heps line is present; otherwise
\* it raises the timeout error, whose message holds the partial log.
C1_TimeoutRecovery ==
    TimedOut =>
        IF Has(HLines) /\ Has(LsbLines)
        THEN /\ Returned
             /\ result.timedOut = TRUE
             /\ result.H = Announced(FirstOf(HLines))
             /\ result.lsbExt = Announced(FirstOf(LsbLines))
             /\ (result.Heps # None) <=> Has(HepsLines)
        ELSE /\ Raised
             /\ result.text = TimeoutText
             /\ result.log = Some(ExpectedLog)

C1_Witness ==
    /\ TimedOut /\ Returned /\ result.timedOut = TRUE
    /\ result.Heps # None /\ result.H = 100 /\ result.lsbExt = -3

\* C2: a non-zero exit code always raises an error carrying the exit code and
\* the full log, whatever the log announces and whatever fallback_H is.
C2_NonZeroExitRaises ==
    (Exited /\ proc.returncode # Some(0)) =>
        /\ Raised
        /\ result.code = proc.returncode
        /\ result.log = Some(ExpectedLog)

C2_Witness ==
    /\ Exited /\ proc.returncode = Some(2)
    /\ Has(HLines) /\ Has(HepsLines) /\ Has(LsbLines)
    /\ args.fallback_H # None
    /\ Raised /\ result.code = Some(2)

\* C3: on exit code 0 the call returns a result iff the lsbExt line is present
\* and (the H line is present or fallback_H is given); a result has
\* timedOut = FALSE; with lsbExt absent the call raises an error carrying the
\* log even when H is present or fallback_H is given.
C3_CleanExitOutcome ==
    CleanExit =>
        /\ Returned <=> (Has(LsbLines) /\ (Has(HLines) \/ args.fallback_H # None))
        /\ Returned => result.timedOut = FALSE
        /\ ~Returned => (Raised /\ result.log = Some(ExpectedLog))

C3_Witness ==
    /\ CleanExit /\ ~Has(LsbLines) /\ Has(HLines) /\ args.fallback_H # None
    /\ Raised /\ result.text = NoLsbText

\* C4: clean exit, no H line, lsbExt line present: with fallback_H given (0.0
\* included) the result's H is fallback_H; with fallback_H unset the call
\* raises the H-not-found error carrying the log.
C4_FallbackH ==
    (CleanExit /\ ~Has(HLines) /\ Has(LsbLines)) =>
        IF args.fallback_H # None
        THEN Returned /\ result.H = args.fallback_H[1]
        ELSE Raised /\ result.text = NoHText /\ result.log = Some(ExpectedLog)

C4_Witness ==
    /\ CleanExit /\ ~Has(HLines) /\ Has(LsbLines)
    /\ args.fallback_H = Some(0) /\ Returned /\ result.H = 0

\* the same run with every Heps line taken out of the captured streams
WithoutHeps(stream) ==
    IF stream = None THEN None ELSE Some(SelectSeq(stream[1], LAMBDA x : x \notin HepsLines))

OutcomeWithoutHeps ==
    IF proc.kind = "timeout"
    THEN OnTimeoutExpired(args, WithoutHeps(proc.stdout), WithoutHeps(proc.stderr))
    ELSE OnCompleted(args, proc.returncode[1], WithoutHeps(proc.stdout), WithoutHeps(proc.stderr))

\* C5: in every returned result Heps is None exactly when the log has no Heps
\* line, and the Heps line never decides the outcome: the run without the Heps
\* lines ends the same way (result or the same error) with the same H, lsbExt
\* and timedOut.
C5_HepsOptional ==
    (TimedOut \/ Exited) =>
        /\ Returned => ((result.Heps = None) <=> ~Has(HepsLines))
        /\ OutcomeWithoutHeps.kind = result.kind
        /\ Returned => /\ OutcomeWithoutHeps.H = result.H
                       /\ OutcomeWithoutHeps.lsbExt = result.lsbExt
                       /\ OutcomeWithoutHeps.timedOut = result.timedOut
                       /\ OutcomeWithoutHeps.Heps = None
        /\ Raised => /\ OutcomeWithoutHeps.text = result.text
                     /\ OutcomeWithoutHeps.code = result.code

C5_Witness ==
    /\ CleanExit /\ Returned /\ result.Heps = None /\ ~Has(HepsLines)
    /\ result.H = 350

\* C6: the log scanned is stdout, one newline, stderr; on a clean exit with H
\* lines in the log the returned H is that of the first one in this order,
\* stdout before stderr, whatever the phrasing of the later ones.
C6_FirstHWins ==
    /\ (TimedOut \/ Exited) =>
          /\ Returned => result.raw_log = ExpectedLog
          /\ Raised => result.log = Some(ExpectedLog)
    /\ (CleanExit /\ Returned /\ Has(HLines)) => result.H = Announced(FirstOf(HLines))

C6_Witness ==
    /\ CleanExit /\ Returned
    /\ InOut({LineFH}) /\ ~InOut({LineCH}) /\ InErr({LineCH})
    /\ result.H = 100

\* C7 as stated: every failure path, executable not found included, raises an
\* error whose message has the raw captured log attached.
C7_EveryFailureCarriesLog ==
    (pc = "done" /\ Raised) => result.log = Some(ExpectedLog)

\* C7 amended: every failure of a child that ran (timeout without recoverable
\* metrics, non-zero exit, required metric not found) raises an error whose
\* message holds the captured log; the executable-not-found error names the
\* resolved executable and holds no log.
C7_FailuresOfARunCarryLog ==
    (pc = "done" /\ Raised) =>
        IF proc.kind = "notfound"
        THEN result.log = None /\ result.exe = Some(cmd[1])
        ELSE result.log = Some(ExpectedLog)

C7_Witness ==
    /\ CleanExit /\ Raised /\ result.text = NoHText
    /\ Has(LsbLines) /\ result.log = Some(ExpectedLog)

\* C8: fallback_H stands in for H only on a clean exit without H line: with an
\* H line present the result's H is the parsed one, and a timeout whose partial
\* log has no H line raises the timeout error even with the lsbExt line present
\* and fallback_H given.
C8_FallbackOnlyOnCleanExit ==
    /\ ((TimedOut \/ Exited) /\ Returned /\ Has(HLines)) =>
          result.H = Announced(FirstOf(HLines))
    /\ (pc = "done" /\ Returned /\ ~Has(HLines)) =>
          (CleanExit /\ args.fallback_H = Some(result.H))
    /\ (TimedOut /\ ~Has(HLines)) => (Raised /\ result.text = TimeoutText)

C8_Witness ==
    /\ TimedOut /\ ~Has(HLines) /\ Has(LsbLines) /\ args.fallback_H = Some(250)
    /\ Raised /\ result.text = TimeoutText

\* a path counts as given when flopoco_exe is neither None nor the empty string
ExplicitGiven == args.flopoco_exe # None /\ args.flopoco_exe # Some("")

\* C9: the resolved executable is never empty: the explicit path when one is
\* given, whatever the search path holds; else the search-path hit for flopoco
\* when there is one; else ./build/flopoco.
C9_ResolveExecutable ==
    pc = "running" =>
        /\ cmd[1] # ""
        /\ cmd[1] = (IF ExplicitGiven THEN args.flopoco_exe[1]
                     ELSE IF which # None THEN which[1]
                     ELSE "./build/flopoco")

C9_Witness ==
    /\ pc = "running" /\ ExplicitGiven /\ which = Some("/usr/bin/flopoco")
    /\ cmd[1] = "/opt/flopoco/build/flopoco"

FigToken == IF args.generateFigures = 0 THEN "generateFigures=0" ELSE "generateFigures=1"
LsbInToken == IF args.lsbIn = -12 THEN "lsbIn=-12" ELSE "lsbIn=8"
LogLevelToken == IF args.loglevel = 0 THEN "loglevel=0" ELSE "loglevel=1"
GivenExtra == IF args.extra_args = None THEN <<>> ELSE args.extra_args[1]

\* C10: the command is the resolved executable, generateFigures=<int>, FixIIR,
\* coeffb=.., coeffa=.., lsbIn=<int>, lsbOut=<int>, loglevel=<int>, then every
\* element of extra_args in the order given; eight tokens without extra_args.
C10_CommandLine ==
    pc = "running" =>
        /\ Len(cmd) = 8 + Len(GivenExtra)
        /\ SubSeq(cmd, 2, 8) = << FigToken, "FixIIR", "coeffb=0x1p-1:0x1p-2", "coeffa=-0x1p-1",
                                  LsbInToken, "lsbOut=-12", LogLevelToken >>
        /\ \A i \in DOMAIN GivenExtra : cmd[8 + i] = GivenExtra[i]

C10_Witness ==
    /\ pc = "running"
    /\ args.extra_args = Some(<<"frequency=200", "target=Zynq7000">>)
    /\ args.lsbIn = 8 /\ Len(cmd) = 10

====
